---------------------------- MODULE Spec2Model ----------------------------
(***************************************************************************)
(* A model of psiflow/sampling/utils.py: the YAFF force-field wrappers     *)
(* (ForcePartPlumed, ForcePartASE, ForceField), the Verlet hooks          *)
(* (DataHook, ExtXYZHook), the strain algebra (apply_strain,              *)
(* compute_strain) and the console parser (parse_yaff_output).            *)
(*                                                                         *)
(* Each component has its own specification (SpecParse, SpecStrain,       *)
(* SpecFF, SpecPlumed, SpecHooks); the variables of the other components  *)
(* stay at their idle values.                                             *)
(***************************************************************************)
EXTENDS Integers, Sequences, FiniteSets, TLC

VARIABLES
    \* parse_yaff_output
    stdout,         \* the console text: a sequence of lines, each a sequence of tokens
    parse_pc,       \* "start" | "done"
    parse_result,   \* [outcome, tag, counter] of the call
    \* apply_strain / compute_strain
    st_strain,      \* the strain argument (3x3 matrix of rationals)
    st_box0,        \* the reference box argument
    st_pc,          \* "start" | "applied" | "computed" | "failed"
    st_box,         \* what apply_strain returned
    st_result,      \* what compute_strain returned
    st_error,       \* the exception of the failed call, or "none"
    \* ForceField with its ForcePartASE parts
    ff_pos,         \* system.pos, in atomic units
    ff_rvecs,       \* system.cell rvecs, in atomic units
    ff_parts,       \* the parts, in registration order: the calculator of each
    ff_atoms,       \* per part: the positions and cell last pushed to its ase.Atoms
    ff_threshold,   \* force_threshold [eV/A]
    ff_nlist,       \* whether the force field has a neighbour list
    ff_needs_nlist_update,
    ff_call,        \* the buffers the last compute call supplied
    ff_outcome,     \* "none" | "return" | "ForceThresholdExceededException" | "TypeError"
    ff_energy,      \* the value returned
    ff_gpos,        \* the gradient buffer after the call
    ff_vtens,       \* the virial buffer after the call
    ff_exc,         \* what the exception carries: [max2, index]
    \* ForcePartPlumed
    pl_step,        \* self.plumedstep
    pl_charges,     \* system.charges is not None
    pl_nvec,        \* system.cell.nvec
    pl_steps,       \* the step values handed to the engine (setStep), call after call
    pl_cmds,        \* the commands the last call sent to the engine
    pl_call,        \* the last call: the buffers supplied, the gradient buffer's
                    \* contents before it, the force and virial the engine added
    pl_outcome,     \* "none" | "return"
    pl_energy,      \* the value returned
    pl_gpos,        \* the gradient buffer after the call
    pl_vtens,       \* the virial buffer after the call
    \* the Verlet integrator with a DataHook and an ExtXYZHook
    it_pc,          \* "new" (hooks constructed) | "running" | "failed" (a hook raised)
    it_counter,     \* iterative.counter
    it_system,      \* iterative.ff.system: [numbers, pos, rvecs], in atomic units
    it_trace,       \* the system at iterations 0, 1, ..., counter
    heap,           \* the ase.Atoms objects allocated so far; a reference is an index
    dh_start,       \* the start given to DataHook(start, step)
    dh_step,        \* the step given to DataHook(start, step)
    dh_atoms,       \* DataHook.atoms: a reference, 0 for None
    dh_data,        \* DataHook.data: a list of references
    xh_start,       \* the start given to ExtXYZHook(path_xyz, start, step)
    xh_step,        \* the step given to ExtXYZHook(path_xyz, start, step)
    xh_atoms,       \* ExtXYZHook.atoms: a reference, 0 for None
    xh_file,        \* the frames appended to path_xyz
    xh_calls        \* the iterations at which ExtXYZHook.__call__ was invoked

parseVars == <<stdout, parse_pc, parse_result>>
strainVars == <<st_strain, st_box0, st_pc, st_box, st_result, st_error>>

ffVars == <<ff_pos, ff_rvecs, ff_parts, ff_atoms, ff_threshold, ff_nlist,
           ff_needs_nlist_update, ff_call, ff_outcome, ff_energy, ff_gpos, ff_vtens, ff_exc>>

plVars == <<pl_step, pl_charges, pl_nvec, pl_steps, pl_cmds, pl_call, pl_outcome,
           pl_energy, pl_gpos, pl_vtens>>

hookVars == <<it_pc, it_counter, it_system, it_trace, heap, dh_start, dh_step, dh_atoms,
             dh_data, xh_start, xh_step, xh_atoms, xh_file, xh_calls>>

vars == <<parseVars, strainVars, ffVars, plVars, hookVars>>

-----------------------------------------------------------------------------
(* parse_yaff_output (utils.py 230-246)                                    *)

\* Bounds of the console text.
MaxLines == 2
MaxTokens == 3

\* The whitespace-separated tokens a line is made of.  "VERLET" is the step
\* marker, "120" and "-3" are integer literals, "1.5" is a float literal that
\* is no integer literal, "unsafe" is the tag keyword (and a non-numeric word).
Tokens == {"VERLET", "120", "-3", "1.5", "unsafe"}

\* float(s) succeeds (line 235)
IsFloat(s) == s \in {"120", "-3", "1.5"}

\* int(s) succeeds (line 238)
IsInt(s) == s \in {"120", "-3"}

\* the value of int(s)
IntOf(s) == CASE s = "120" -> 120
              [] s = "-3" -> -3
              [] OTHER -> 0

\* 'VERLET' in line (line 233)
HasVerlet(line) == \E i \in 1..Len(line) : line[i] = "VERLET"

\* 'unsafe' in stdout (line 242)
HasUnsafe(text) == \E l \in 1..Len(text) : \E i \in 1..Len(text[l]) : text[l][i] = "unsafe"

\* [float(s) for s in line.split()[1:]] raises ValueError (lines 234-237)
FloatsFail(line) == \E i \in 2..Len(line) : ~IsFloat(line[i])

\* The loop of lines 232-241 from line i downwards: the outcome and the counter.
RECURSIVE ScanLines(_, _)
ScanLines(text, i) ==
    IF i = 0 THEN [outcome |-> "return", counter |-> 0]
    ELSE LET line == text[i] IN
         IF ~HasVerlet(line) THEN ScanLines(text, i - 1)
         ELSE IF FloatsFail(line) THEN ScanLines(text, i - 1)             \* except ValueError: continue
         ELSE IF Len(line) < 2 THEN [outcome |-> "IndexError", counter |-> 0]  \* line.split()[1]
         ELSE IF ~IsInt(line[2]) THEN [outcome |-> "ValueError", counter |-> 0] \* int(...)
         ELSE [outcome |-> "return", counter |-> IntOf(line[2])]

parse_yaff_output(text) ==
    LET scan == ScanLines(text, Len(text)) IN
    [outcome |-> scan.outcome,
     tag     |-> IF scan.outcome = "return"
                 THEN (IF HasUnsafe(text) THEN "unsafe" ELSE "safe")
                 ELSE "none",
     counter |-> scan.counter]

Lines == UNION {[1..n -> Tokens] : n \in 0..MaxTokens}

\* stdout.split('\n') always yields at least one (possibly empty) line.
Texts == UNION {[1..n -> Lines] : n \in 1..MaxLines}

NoResult == [outcome |-> "none", tag |-> "none", counter |-> 0]

ParseInit ==
    /\ stdout \in Texts
    /\ parse_pc = "start"
    /\ parse_result = NoResult

ParseIdle ==
    /\ stdout = <<>>
    /\ parse_pc = "idle"
    /\ parse_result = NoResult

Parse ==
    /\ parse_pc = "start"
    /\ parse_result' = parse_yaff_output(stdout)
    /\ parse_pc' = "done"
    /\ UNCHANGED stdout
    /\ UNCHANGED <<strainVars, ffVars, plVars, hookVars>>

ParseNext == Parse

-----------------------------------------------------------------------------
(* Exact arithmetic for the strain algebra.                                *)
(* A number is a fraction <<n, d>> in lowest terms with d > 0; <<0, 0>> is *)
(* NaN, which every operation propagates as IEEE arithmetic does.          *)

NaN == <<0, 0>>

Abs(x) == IF x < 0 THEN -x ELSE x

RECURSIVE Gcd(_, _)
Gcd(a, b) == IF b = 0 THEN a ELSE Gcd(b, a % b)

Q(n, d) ==
    IF d = 0 THEN NaN
    ELSE LET g == Gcd(Abs(n), Abs(d))
             sgn == IF d < 0 THEN -1 ELSE 1
         IN <<sgn * (n \div g), Abs(d) \div g>>

QInt(n) == <<n, 1>>
IsNaN(x) == x[2] = 0
QAdd(x, y) == Q(x[1] * y[2] + y[1] * x[2], x[2] * y[2])
QSub(x, y) == Q(x[1] * y[2] - y[1] * x[2], x[2] * y[2])
QMul(x, y) == Q(x[1] * y[1], x[2] * y[2])
QDiv(x, y) == IF IsNaN(x) \/ IsNaN(y) THEN NaN ELSE Q(x[1] * y[2], x[2] * y[1])
QLeq(x, y) == x[1] * y[2] <= y[1] * x[2]
QAbs(x) == <<Abs(x[1]), x[2]>>
\* c * x for a positive integer c, cancelling before multiplying
QTimes(c, x) ==
    IF IsNaN(x) THEN NaN
    ELSE LET g == Gcd(c, x[2]) IN Q((c \div g) * x[1], x[2] \div g)

\* The integer square root of a perfect square.
ISqrt(n) == CHOOSE r \in 0..n : r * r = n

\* np.sqrt of one number (line 204): NaN for a negative argument, no exception.
QSqrt(x) == IF IsNaN(x) \/ x[1] < 0 THEN NaN ELSE Q(ISqrt(x[1]), ISqrt(x[2]))

\* 3x3 matrices: tuples of rows.
Idx == 1..3
Mat(f(_, _)) == [i \in Idx |-> [j \in Idx |-> f(i, j)]]
MatOfInts(m) == [i \in Idx |-> [j \in Idx |-> QInt(m[i][j])]]
Eye == [i \in Idx |-> [j \in Idx |-> IF i = j THEN QInt(1) ELSE QInt(0)]]
Transpose(m) == [i \in Idx |-> [j \in Idx |-> m[j][i]]]
MatAdd(a, b) == [i \in Idx |-> [j \in Idx |-> QAdd(a[i][j], b[i][j])]]
MatSub(a, b) == [i \in Idx |-> [j \in Idx |-> QSub(a[i][j], b[i][j])]]
MatScale(c, a) == [i \in Idx |-> [j \in Idx |-> QMul(c, a[i][j])]]
\* a @ b
MatMul(a, b) ==
    [i \in Idx |-> [j \in Idx |->
        QAdd(QAdd(QMul(a[i][1], b[1][j]), QMul(a[i][2], b[2][j])), QMul(a[i][3], b[3][j]))]]
MatHasNaN(a) == \E i \in DOMAIN a : \E j \in DOMAIN a[i] : IsNaN(a[i][j])

Det2(a, b, c, d) == QSub(QMul(a, d), QMul(b, c))
Det(m) ==
    QAdd(QSub(QMul(m[1][1], Det2(m[2][2], m[2][3], m[3][2], m[3][3])),
              QMul(m[1][2], Det2(m[2][1], m[2][3], m[3][1], m[3][3]))),
         QMul(m[1][3], Det2(m[2][1], m[2][2], m[3][1], m[3][2])))

\* The (i, j) cofactor of m.
Cofactor(m, i, j) ==
    LET r == Idx \ {i}
        c == Idx \ {j}
        r1 == CHOOSE x \in r : \A y \in r : x <= y
        r2 == CHOOSE x \in r : \A y \in r : x >= y
        c1 == CHOOSE x \in c : \A y \in c : x <= y
        c2 == CHOOSE x \in c : \A y \in c : x >= y
        minor == Det2(m[r1][c1], m[r1][c2], m[r2][c1], m[r2][c2])
    IN IF (i + j) % 2 = 0 THEN minor ELSE QSub(QInt(0), minor)

\* np.linalg.inv (line 226): the inverse, or LinAlgError for a singular matrix.
Singular(m) == Det(m) = QInt(0)
Inv(m) == [i \in Idx |-> [j \in Idx |-> QDiv(Cofactor(m, j, i), Det(m))]]

-----------------------------------------------------------------------------
(* apply_strain (utils.py 181-206) and compute_strain (utils.py 209-227)   *)

\* Largest square root of an eigenvalue of 2 * strain + I in the inputs.
MaxRoot == 2

\* The default tolerances of np.allclose: rtol = 1e-05 = 1 / RtolInverse and
\* atol = 1e-08 = 1 / AtolInverse.
RtolInverse == 100000
AtolInverse == 100000000

\* np.allclose(a, b): |a - b| <= atol + rtol * |b| for every entry, and never
\* for a NaN.  Both sides are multiplied by AtolInverse.
allclose(a, b) ==
    \A i \in Idx : \A j \in Idx :
        /\ ~IsNaN(a[i][j])
        /\ ~IsNaN(b[i][j])
        /\ QLeq(QTimes(AtolInverse, QAbs(QSub(a[i][j], b[i][j]))),
                QAdd(QInt(1), QTimes(AtolInverse \div RtolInverse, QAbs(b[i][j]))))

\* np.allclose(strain, strain.T) (line 201)
IsSymmetric(m) == allclose(m, Transpose(m))

\* The matrix np.linalg.eigh works on: it reads the lower triangle of its
\* argument only (UPLO = 'L') and takes the upper one to be its mirror image.
LowerTriangle(m) == [i \in Idx |-> [j \in Idx |-> IF j <= i THEN m[i][j] ELSE m[j][i]]]

IsDiagonal(m) == \A i \in Idx : \A j \in Idx : i # j => m[i][j] = QInt(0)

\* Orthogonal frames of integer vectors: the eigenvector bases of the inputs.
\* The orthonormal eigenvectors are these divided by their lengths.
Frames ==
    { << <<1, 0, 0>>, <<0, 1, 0>>, <<0, 0, 1>> >>,
      << <<1, 1, 0>>, <<1, -1, 0>>, <<0, 0, 1>> >>,
      << <<1, 1, 1>>, <<1, -1, 0>>, <<1, 1, -2>> >> }

Norm2(w) == w[1] * w[1] + w[2] * w[2] + w[3] * w[3]

\* sum_k d[k] * w_k w_k^T / |w_k|^2 : V @ diag(d) @ V.T for the orthonormal V
\* whose columns are the normalised vectors of frame.
FromEigen(frame, d) ==
    [i \in Idx |-> [j \in Idx |->
        QAdd(QAdd(QMul(d[1], Q(frame[1][i] * frame[1][j], Norm2(frame[1]))),
                  QMul(d[2], Q(frame[2][i] * frame[2][j], Norm2(frame[2])))),
             QMul(d[3], Q(frame[3][i] * frame[3][j], Norm2(frame[3]))))]]

\* A m = lambda w for the k-th vector of the frame: the eigenvalue, as the
\* Rayleigh quotient, and whether w is an eigenvector.
MatVec(m, w) ==
    [i \in Idx |-> QAdd(QAdd(QMul(m[i][1], QInt(w[1])), QMul(m[i][2], QInt(w[2]))),
                        QMul(m[i][3], QInt(w[3])))]
Rayleigh(m, w) ==
    LET mw == MatVec(m, w)
    IN QDiv(QAdd(QAdd(QMul(mw[1], QInt(w[1])), QMul(mw[2], QInt(w[2]))), QMul(mw[3], QInt(w[3]))),
            QInt(Norm2(w)))
IsEigenvector(m, w) ==
    \A i \in Idx : MatVec(m, w)[i] = QMul(Rayleigh(m, w), QInt(w[i]))

Perms == {p \in [Idx -> Idx] : \A i, j \in Idx : i # j => p[i] # p[j]}

\* What floating-point rounding makes of an eigenvalue that is exactly zero:
\* zero or a tiny positive number, whose square root is zero to working
\* precision ("exact"), or a tiny negative number ("below").
EighRoundings == {"exact", "below"}
TinyNegative == Q(-1, 1000000000)

\* np.linalg.eigh (line 203), by its contract: it reads the lower triangle,
\* and returns the eigenvalues in ascending order and an orthonormal basis of
\* eigenvectors (here: the unnormalised frame).  The eigenvalues of a diagonal
\* matrix are its entries; those of another matrix are computed with rounding.
eigh(M, rounding) ==
    LET A == LowerTriangle(M)
        fp == CHOOSE fp \in Frames \X Perms :
                  /\ \A k \in Idx : IsEigenvector(A, fp[1][k])
                  /\ \A k \in 1..2 : QLeq(Rayleigh(A, fp[1][fp[2][k]]),
                                          Rayleigh(A, fp[1][fp[2][k + 1]]))
        frame == [k \in Idx |-> fp[1][fp[2][k]]]
        value(k) == LET v == Rayleigh(A, frame[k])
                    IN IF v = QInt(0) /\ rounding = "below" /\ ~IsDiagonal(A)
                       THEN TinyNegative ELSE v
    IN [values |-> [k \in Idx |-> value(k)], vectors |-> frame]

\* apply_strain: [error, box]; rounding is that of the eigenvalue routine
apply_strain_swapped(strain, box0, rounding) ==
    IF ~IsSymmetric(strain) THEN [error |-> "AssertionError", box |-> <<>>]
    ELSE LET A == MatAdd(MatScale(QInt(2), strain), Eye)
             e == eigh(A, rounding)
             sqrtA == FromEigen(e.vectors, [k \in Idx |-> QSqrt(e.values[k])])
         IN [error |-> "none", box |-> MatMul(sqrtA, box0)]

apply_strain(strain, box0, rounding) ==
    IF ~IsSymmetric(strain) THEN [error |-> "AssertionError", box |-> <<>>]   \* line 201
    ELSE LET A == MatAdd(MatScale(QInt(2), strain), Eye)                      \* line 202
             e == eigh(A, rounding)                                           \* line 203
             sqrtA == FromEigen(e.vectors, [k \in Idx |-> QSqrt(e.values[k])]) \* line 204
         IN [error |-> "none", box |-> MatMul(box0, sqrtA)]                   \* line 205

\* compute_strain: [error, strain]
compute_strain(box, box0) ==
    IF Singular(box0) THEN [error |-> "LinAlgError", strain |-> <<>>]         \* line 226
    ELSE LET box0inv == Inv(box0)
         IN [error |-> "none",
             strain |-> MatScale(Q(1, 2),
                            MatSub(MatMul(MatMul(MatMul(box0inv, box), Transpose(box)),
                                          Transpose(box0inv)),
                                   Eye))]                                      \* line 227

\* The eigenvalues of 2 * strain + I in the inputs: squares r^2, and -1.
EigenInputs == {QInt(r * r) : r \in 0..MaxRoot} \cup {QInt(-1)}

\* Symmetric strains with 2 * strain + I = V diag(lambda) V^T, strains that
\* are far from symmetric, and strains whose upper triangle departs from the
\* lower one by a little: within the tolerance of line 201 (1e-9 against 0,
\* 1e-5 against 1, 1e-6 against 1/2) and just outside it (1e-7 against 0,
\* 2e-5 against 1).
SymmetricStrains ==
    { MatScale(Q(1, 2), MatSub(FromEigen(f, l), Eye)) :
        f \in Frames, l \in [Idx -> EigenInputs] }

AsymmetricStrains ==
    { MatOfInts(<< <<0, 1, 0>>, <<0, 0, 0>>, <<0, 0, 0>> >>),
      MatOfInts(<< <<4, 0, 0>>, <<0, 0, 2>>, <<0, -2, 0>> >>) }

Perturbed(s, i, j, eps) == [s EXCEPT ![i][j] = QAdd(s[i][j], eps)]

ZeroStrain == MatOfInts(<< <<0, 0, 0>>, <<0, 0, 0>>, <<0, 0, 0>> >>)
\* 2 * strain + I has the eigenvalues 4, 0, 1 along (1,1,0), (1,-1,0), (0,0,1)
ShearStrain == MatScale(Q(1, 2), MatSub(FromEigen(
                   << <<1, 1, 0>>, <<1, -1, 0>>, <<0, 0, 1>> >>,
                   <<QInt(4), QInt(0), QInt(1)>>), Eye))
\* 2 * strain + I has the eigenvalues 4, 1, 1 in the frame of the body diagonal
BodyStrain == MatScale(Q(1, 2), MatSub(FromEigen(
                  << <<1, 1, 1>>, <<1, -1, 0>>, <<1, 1, -2>> >>,
                  <<QInt(4), QInt(1), QInt(1)>>), Eye))

NearlySymmetricStrains ==
    { Perturbed(ZeroStrain, 1, 2, Q(1, 1000000000)),
      Perturbed(ZeroStrain, 1, 2, Q(1, 10000000)),
      Perturbed(ShearStrain, 1, 2, Q(1, 100000)),
      Perturbed(ShearStrain, 1, 2, Q(2, 100000)),
      Perturbed(BodyStrain, 2, 3, Q(-1, 1000000)) }

Strains == SymmetricStrains \cup AsymmetricStrains \cup NearlySymmetricStrains

\* Reference boxes: diagonal, sheared (not symmetric), general, and a singular one.
Boxes ==
    { MatOfInts(<< <<2, 0, 0>>, <<0, 3, 0>>, <<0, 0, 1>> >>),
      MatOfInts(<< <<1, 1, 0>>, <<0, 1, 0>>, <<0, 0, 2>> >>),
      MatOfInts(<< <<0, 1, 0>>, <<1, 0, 1>>, <<2, 0, 1>> >>),
      MatOfInts(<< <<1, 2, 0>>, <<2, 4, 0>>, <<0, 0, 1>> >>) }

StrainInit ==
    /\ st_strain \in Strains
    /\ st_box0 \in Boxes
    /\ st_pc = "start"
    /\ st_box = <<>>
    /\ st_result = <<>>
    /\ st_error = "none"

StrainIdle ==
    /\ st_strain = <<>>
    /\ st_box0 = <<>>
    /\ st_pc = "idle"
    /\ st_box = <<>>
    /\ st_result = <<>>
    /\ st_error = "none"

\* box = apply_strain(strain, box0)
ApplyStrain ==
    /\ st_pc = "start"
    /\ \E rounding \in EighRoundings :
       \E r \in {apply_strain(st_strain, st_box0, rounding)} :
        /\ st_error' = r.error
        /\ st_box' = r.box
        /\ st_pc' = IF r.error = "none" THEN "applied" ELSE "failed"
    /\ UNCHANGED <<st_strain, st_box0, st_result>>
    /\ UNCHANGED <<parseVars, ffVars, plVars, hookVars>>

\* compute_strain(box, box0) on the box apply_strain returned
ComputeStrain ==
    /\ st_pc = "applied"
    /\ \E r \in {compute_strain(st_box, st_box0)} :
        /\ st_error' = r.error
        /\ st_result' = r.strain
        /\ st_pc' = IF r.error = "none" THEN "computed" ELSE "failed"
    /\ UNCHANGED <<st_strain, st_box0, st_box>>
    /\ UNCHANGED <<parseVars, ffVars, plVars, hookVars>>

StrainNext == ApplyStrain \/ ComputeStrain

-----------------------------------------------------------------------------
(* Quantities with units.                                                  *)
(* A quantity is val * electronvolt^ev * angstrom^ang, where val is an     *)
(* integer or an array of integers and electronvolt, angstrom are molmod's *)
(* unit factors (atomic units).  Multiplying or dividing by a unit factor  *)
(* shifts an exponent, so a conversion is undone only by its inverse.      *)
(* None is a quantity with some = FALSE.                                   *)

Qty(val, ev, ang) == [some |-> TRUE, val |-> val, ev |-> ev, ang |-> ang]
None == [some |-> FALSE, val |-> 0, ev |-> 0, ang |-> 0]

\* q * molmod.units.angstrom, q / molmod.units.angstrom, and the same for electronvolt
TimesAngstrom(q) == [q EXCEPT !.ang = @ + 1]
PerAngstrom(q) == [q EXCEPT !.ang = @ - 1]
TimesElectronvolt(q) == [q EXCEPT !.ev = @ + 1]
PerElectronvolt(q) == [q EXCEPT !.ev = @ - 1]
\* arrays (N x 3 or 3 x 3) of integers
ArrZeros(n, m) == [i \in 1..n |-> [k \in 1..m |-> 0]]
ArrAdd(a, b) == [i \in DOMAIN a |-> [k \in DOMAIN a[i] |-> a[i][k] + b[i][k]]]
ArrScale(c, a) == [i \in DOMAIN a |-> [k \in DOMAIN a[i] |-> c * a[i][k]]]
ArrNeg(a) == ArrScale(-1, a)

IDet(m) ==
    m[1][1] * (m[2][2] * m[3][3] - m[2][3] * m[3][2])
    - m[1][2] * (m[2][1] * m[3][3] - m[2][3] * m[3][1])
    + m[1][3] * (m[2][1] * m[3][2] - m[2][2] * m[3][1])

-----------------------------------------------------------------------------
(* The ASE calculator behind a ForcePartASE: a deterministic map from the  *)
(* positions [A] and cell [A] to energy [eV], forces [eV/A] and stress.    *)
(*   "harmonic": E = sum |x_i|^2, F_i = -2 x_i                             *)
(*   "tilt":     E = -sum (3 x_i1 + 4 x_i2), F_i = (3, 4, 0)               *)

Calculators == {"harmonic", "tilt"}

RECURSIVE SumTo(_, _)
SumTo(f, n) == IF n = 0 THEN 0 ELSE f[n] + SumTo(f, n - 1)

VecNorm2(v) == v[1] * v[1] + v[2] * v[2] + v[3] * v[3]

get_potential_energy(calc, x) ==
    IF calc = "harmonic"
    THEN SumTo([i \in DOMAIN x |-> VecNorm2(x[i])], Len(x))
    ELSE -SumTo([i \in DOMAIN x |-> 3 * x[i][1] + 4 * x[i][2]], Len(x))

get_forces(calc, x) ==
    IF calc = "harmonic"
    THEN [i \in DOMAIN x |-> <<-2 * x[i][1], -2 * x[i][2], -2 * x[i][3]>>]
    ELSE [i \in DOMAIN x |-> <<3, 4, 0>>]

get_stress(calc) ==
    IF calc = "harmonic"
    THEN << <<1, 0, 0>>, <<0, 1, 0>>, <<0, 0, 1>> >>
    ELSE << <<0, 1, 0>>, <<1, 0, 0>>, <<0, 0, 2>> >>

-----------------------------------------------------------------------------
(* ForcePartASE (utils.py 53-86), ForceField (utils.py 89-111)             *)

MaxAtoms == 2
MaxParts == 2
DefaultForceThreshold == 20

\* ForcePartASE._internal_compute (lines 75-86) for the part with calculator
\* calc, given the buffers it is handed: [atoms, energy, gpos, vtens]
ForcePartASE_internal_compute(calc, pos, rvecs, gpos, vtens) ==
    LET positions == PerAngstrom(pos)                                   \* line 76
        cell == PerAngstrom(rvecs)                                      \* line 77
        energy == TimesElectronvolt(
                      Qty(get_potential_energy(calc, positions.val), 0, 0)) \* line 78
        forces == Qty(get_forces(calc, positions.val), 0, 0)            \* line 80
        volume == IDet(cell.val)                                        \* line 84
    IN [atoms  |-> [positions |-> positions, cell |-> cell],
        energy |-> energy,
        gpos   |-> IF gpos.some
                   THEN PerAngstrom(TimesElectronvolt(
                            Qty(ArrNeg(forces.val), 0, 0)))             \* line 81
                   ELSE gpos,
        vtens  |-> IF vtens.some
                   THEN TimesElectronvolt(
                            Qty(ArrScale(volume, get_stress(calc)), 0, 0)) \* line 85
                   ELSE vtens]

\* a += b on buffers; a zeroed buffer takes the unit of what is added to it
BufAdd(a, b) == IF a.some /\ a.val = ArrZeros(Len(a.val), 3) /\ a.ev = 0 /\ a.ang = 0
                THEN b
                ELSE [a EXCEPT !.val = ArrAdd(a.val, b.val)]

\* yaff.pes.ForcePart.compute, which line 100 calls on every part: the part
\* fills zeroed buffers of its own, which are then added to the caller's.
ForcePart_compute(calc, pos, rvecs, gpos, vtens) ==
    LET my_gpos == IF gpos.some THEN Qty(ArrZeros(Len(gpos.val), 3), 0, 0) ELSE None
        my_vtens == IF vtens.some THEN Qty(ArrZeros(3, 3), 0, 0) ELSE None
        r == ForcePartASE_internal_compute(calc, pos, rvecs, my_gpos, my_vtens)
    IN [atoms  |-> r.atoms,
        energy |-> r.energy,
        gpos   |-> IF gpos.some THEN BufAdd(gpos, r.gpos) ELSE gpos,
        vtens  |-> IF vtens.some THEN BufAdd(vtens, r.vtens) ELSE vtens]

\* [part.compute(gpos, vtens) for part in self.parts] (line 100), parts k..n
RECURSIVE ComputeParts(_, _, _, _, _)
ComputeParts(parts, k, pos, rvecs, acc) ==
    IF k > Len(parts) THEN acc
    ELSE LET r == ForcePart_compute(parts[k], pos, rvecs, acc.gpos, acc.vtens)
         IN ComputeParts(parts, k + 1, pos, rvecs,
                [energies |-> Append(acc.energies, r.energy),
                 atoms    |-> Append(acc.atoms, r.atoms),
                 gpos     |-> r.gpos,
                 vtens    |-> r.vtens])

\* sum(energies) (line 100); the energies share their unit
RECURSIVE SumEnergies(_, _)
SumEnergies(es, n) ==
    IF n = 0 THEN 0 ELSE es[n].val + SumEnergies(es, n - 1)

sum(es) == IF Len(es) = 0 THEN Qty(0, 0, 0)
           ELSE [es[1] EXCEPT !.val = SumEnergies(es, Len(es))]

\* np.max / np.argmax of the squared norms of the rows (lines 106-107)
MaxNorm2(forces) ==
    LET n2 == [i \in DOMAIN forces |-> VecNorm2(forces[i])]
    IN CHOOSE m \in {n2[i] : i \in DOMAIN forces} : \A i \in DOMAIN forces : n2[i] <= m

ArgMaxNorm2(forces) ==
    LET m == MaxNorm2(forces)
        first == CHOOSE i \in DOMAIN forces :
                    /\ VecNorm2(forces[i]) = m
                    /\ \A j \in DOMAIN forces : VecNorm2(forces[j]) = m => i <= j
    IN first - 1

\* ForceField.check_threshold (lines 105-111): whether it raises, and with what.
\* max_force is carried as its square; max_force > threshold compares two
\* non-negative numbers.
check_threshold(forces, threshold) ==
    LET max2 == MaxNorm2(forces.val)
        index == ArgMaxNorm2(forces.val)
    IN [raises |-> max2 > threshold * threshold,
        max2 |-> max2, index |-> index]

\* ForceField._internal_compute keeping only the last part's contribution.
ForceField_internal_compute_last_part(parts, pos, rvecs, threshold, gpos, vtens) ==
    LET all == ComputeParts(parts, 1, pos, rvecs,
                   [energies |-> <<>>, atoms |-> <<>>, gpos |-> gpos, vtens |-> vtens])
        acc == ComputeParts(<<parts[Len(parts)]>>, 1, pos, rvecs,
                   [energies |-> <<>>, atoms |-> <<>>, gpos |-> gpos, vtens |-> vtens])
        result == sum(acc.energies)
        forces == TimesAngstrom(PerElectronvolt([acc.gpos EXCEPT !.val = ArrNeg(@)]))
        chk == check_threshold(forces, threshold)
        base == [outcome |-> "return", energy |-> None, gpos |-> acc.gpos,
                 vtens |-> acc.vtens, exc |-> [max2 |-> 0, index |-> 0],
                 atoms |-> all.atoms]
    IN IF ~acc.gpos.some
       THEN [base EXCEPT !.outcome = "TypeError"]
       ELSE IF chk.raises
       THEN [base EXCEPT !.outcome = "ForceThresholdExceededException",
                         !.exc = [max2 |-> chk.max2, index |-> chk.index]]
       ELSE [base EXCEPT !.energy = result]

\* ForceField._internal_compute (lines 96-103):
\* [outcome, energy, gpos, vtens, exc, atoms, needs_nlist_update]
ForceField_internal_compute(parts, pos, rvecs, threshold, gpos, vtens) ==
    LET acc == ComputeParts(parts, 1, pos, rvecs,
                   [energies |-> <<>>, atoms |-> <<>>, gpos |-> gpos, vtens |-> vtens])
        result == sum(acc.energies)                                      \* line 100
        forces == TimesAngstrom(PerElectronvolt(
                      [acc.gpos EXCEPT !.val = ArrNeg(@)]))              \* line 101
        chk == check_threshold(forces, threshold)                        \* line 102
        base == [outcome |-> "return", energy |-> None, gpos |-> acc.gpos,
                 vtens |-> acc.vtens, exc |-> [max2 |-> 0, index |-> 0],
                 atoms |-> acc.atoms]
    IN IF ~acc.gpos.some
       THEN [base EXCEPT !.outcome = "TypeError"]                        \* line 101 on None
       ELSE IF chk.raises
       THEN [base EXCEPT !.outcome = "ForceThresholdExceededException",
                         !.exc = [max2 |-> chk.max2, index |-> chk.index]]
       ELSE [base EXCEPT !.energy = result]                              \* line 103

\* Positions [A] of one atom, chosen so that forces fall below, on and above the
\* thresholds: |(3,4,0)| = 5.
PosVecs == {<<0, 0, 0>>, <<3, 4, 0>>, <<3, 4, 1>>}
Positions(n) == [1..n -> PosVecs]
Cells == { << <<2, 0, 0>>, <<0, 2, 0>>, <<0, 0, 2>> >>,
           << <<1, 1, 0>>, <<0, 1, 0>>, <<0, 0, 3>> >> }
Thresholds == {10, DefaultForceThreshold}
PartLists == UNION {[1..n -> Calculators] : n \in 1..MaxParts}

NoCall == [gpos |-> FALSE, vtens |-> FALSE]
NoExc == [max2 |-> 0, index |-> 0]

\* create_forcefield (lines 114-123), generalised to several parts and to a
\* force field with a neighbour list.
FFInit ==
    /\ \E n \in 1..MaxAtoms : ff_pos \in {TimesAngstrom(Qty(x, 0, 0)) : x \in Positions(n)}
    /\ ff_rvecs \in {TimesAngstrom(Qty(c, 0, 0)) : c \in Cells}
    /\ ff_parts \in PartLists
    /\ ff_atoms = [k \in DOMAIN ff_parts |->
                      [positions |-> PerAngstrom(ff_pos), cell |-> PerAngstrom(ff_rvecs)]]
    /\ ff_threshold \in Thresholds
    /\ ff_nlist \in BOOLEAN
    /\ ff_needs_nlist_update = ff_nlist
    /\ ff_call = NoCall
    /\ ff_outcome = "none"
    /\ ff_energy = None
    /\ ff_gpos = None
    /\ ff_vtens = None
    /\ ff_exc = NoExc

FFIdle ==
    /\ ff_pos = None
    /\ ff_rvecs = None
    /\ ff_parts = <<>>
    /\ ff_atoms = <<>>
    /\ ff_threshold = 0
    /\ ff_nlist = FALSE
    /\ ff_needs_nlist_update = FALSE
    /\ ff_call = NoCall
    /\ ff_outcome = "idle"
    /\ ff_energy = None
    /\ ff_gpos = None
    /\ ff_vtens = None
    /\ ff_exc = NoExc

\* ForceField.compute(gpos, vtens): each buffer is supplied (zeroed) or None.
FFCompute ==
    /\ \E wantG, wantV \in BOOLEAN :
         LET gpos == IF wantG THEN Qty(ArrZeros(Len(ff_pos.val), 3), 0, 0) ELSE None
             vtens == IF wantV THEN Qty(ArrZeros(3, 3), 0, 0) ELSE None
         IN \E r \in {ForceField_internal_compute(ff_parts, ff_pos, ff_rvecs,
                                                   ff_threshold, gpos, vtens)} :
            /\ ff_call' = [gpos |-> wantG, vtens |-> wantV]
            /\ ff_needs_nlist_update' = FALSE                            \* lines 97-99
            /\ ff_atoms' = r.atoms
            /\ ff_outcome' = r.outcome
            /\ ff_energy' = r.energy
            /\ ff_gpos' = r.gpos
            /\ ff_vtens' = r.vtens
            /\ ff_exc' = r.exc
    /\ UNCHANGED <<ff_pos, ff_rvecs, ff_parts, ff_threshold, ff_nlist>>
    /\ UNCHANGED <<parseVars, strainVars, plVars, hookVars>>

\* The integrator takes the result of the evaluation and moves one atom
\* (yaff's update_pos marks the neighbour list stale).
FFUpdatePos ==
    /\ \E i \in DOMAIN ff_pos.val, x \in PosVecs :
         /\ x # ff_pos.val[i]
         /\ ff_pos' = [ff_pos EXCEPT !.val[i] = x]
    /\ ff_needs_nlist_update' = ff_nlist
    /\ ff_call' = NoCall
    /\ ff_outcome' = "none"
    /\ ff_energy' = None
    /\ ff_gpos' = None
    /\ ff_vtens' = None
    /\ ff_exc' = NoExc
    /\ UNCHANGED <<ff_rvecs, ff_parts, ff_atoms, ff_threshold, ff_nlist>>
    /\ UNCHANGED <<parseVars, strainVars, plVars, hookVars>>

-----------------------------------------------------------------------------
(* ForcePartPlumed (utils.py 11-46)                                        *)

\* Compute calls made on the bias part, and its step counter at the start.
MaxCalls == 3
MaxPlumedStep == 2

\* What the engine does between "setForces"/"setVirial" and "getBias": it adds
\* its force and virial into the arrays it was handed and reports a bias energy.
EngineForces == {<<0, 0, 0>>, <<1, -2, 3>>, <<-1, 0, 2>>}
EngineVirials == { ArrZeros(3, 3), << <<1, 0, 0>>, <<0, -1, 0>>, <<2, 0, 1>> >> }
EngineEnergies == {0, 7}
\* Contents of the caller's buffers before the call (one atom).
BufferRows == {<<0, 0, 0>>, <<2, 1, -1>>, <<1, -2, 3>>}

\* ForcePartPlumed._internal_compute (lines 14-46):
\* [cmds, setStep, plumedstep, gpos, vtens, energy]
ForcePartPlumed_internal_compute_no_restore(plumedstep, charges, nvec, gpos, vtens, engine) ==
    LET my_gpos == IF ~gpos.some THEN ArrZeros(1, 3) ELSE ArrNeg(gpos.val)
        my_vtens == IF ~vtens.some THEN ArrZeros(3, 3) ELSE vtens.val
        forces == ArrAdd(my_gpos, <<engine.force>>)
        virial == ArrAdd(my_vtens, engine.virial)
    IN [cmds |-> <<"setStep", "setPositions", "setMasses">>
                 \o (IF charges THEN <<"setCharges">> ELSE <<>>)
                 \o (IF nvec > 0 THEN <<"setBox">> ELSE <<>>)
                 \o <<"setForces", "setVirial", "prepareCalc", "performCalcNoUpdate", "getBias">>,
        setStep |-> plumedstep,
        plumedstep |-> plumedstep,
        gpos |-> IF gpos.some THEN [gpos EXCEPT !.val = forces] ELSE gpos,
        vtens |-> IF vtens.some THEN [vtens EXCEPT !.val = virial] ELSE vtens,
        energy |-> engine.energy]

ForcePartPlumed_internal_compute_advancing(plumedstep, charges, nvec, gpos, vtens, engine) ==
    [ForcePartPlumed_internal_compute_no_restore(plumedstep, charges, nvec, gpos, vtens, engine)
        EXCEPT !.plumedstep = plumedstep + 1]

ForcePartPlumed_internal_compute(plumedstep, charges, nvec, gpos, vtens, engine) ==
    LET \* lines 27-31: a dummy array, or the caller's buffer negated in place
        my_gpos == IF ~gpos.some THEN ArrZeros(1, 3) ELSE ArrNeg(gpos.val)
        \* lines 33-35
        my_vtens == IF ~vtens.some THEN ArrZeros(3, 3) ELSE vtens.val
        \* lines 39-40: the engine adds into the arrays of setForces / setVirial
        forces == ArrAdd(my_gpos, <<engine.force>>)
        virial == ArrAdd(my_vtens, engine.virial)
    IN [cmds |-> <<"setStep", "setPositions", "setMasses">>              \* lines 15-17
                 \o (IF charges THEN <<"setCharges">> ELSE <<>>)         \* lines 18-19
                 \o (IF nvec > 0 THEN <<"setBox">> ELSE <<>>)            \* lines 20-22
                 \o <<"setForces", "setVirial", "prepareCalc", "performCalcNoUpdate", "getBias">>,
        setStep |-> plumedstep,                                          \* line 15
        plumedstep |-> plumedstep,                                       \* never assigned
        gpos |-> IF gpos.some THEN [gpos EXCEPT !.val = ArrNeg(forces)] ELSE gpos, \* lines 41-42
        vtens |-> IF vtens.some THEN [vtens EXCEPT !.val = virial] ELSE vtens,
        energy |-> engine.energy]                                        \* lines 44-46

NoPlumedCall == [gpos |-> FALSE, vtens |-> FALSE, gpos0 |-> None,
                 force |-> <<0, 0, 0>>, virial |-> ArrZeros(3, 3)]

PlumedInit ==
    /\ pl_step \in 0..MaxPlumedStep
    /\ pl_charges \in BOOLEAN
    /\ pl_nvec \in {0, 3}
    /\ pl_steps = <<>>
    /\ pl_cmds = <<>>
    /\ pl_call = NoPlumedCall
    /\ pl_outcome = "none"
    /\ pl_energy = 0
    /\ pl_gpos = None
    /\ pl_vtens = None

PlumedIdle ==
    /\ pl_step = 0
    /\ pl_charges = FALSE
    /\ pl_nvec = 0
    /\ pl_steps = <<>>
    /\ pl_cmds = <<>>
    /\ pl_call = NoPlumedCall
    /\ pl_outcome = "idle"
    /\ pl_energy = 0
    /\ pl_gpos = None
    /\ pl_vtens = None

\* One call of _internal_compute(gpos, vtens); each buffer is supplied or None.
PlumedCompute ==
    /\ Len(pl_steps) < MaxCalls
    /\ \E wantG, wantV \in BOOLEAN, g0 \in BufferRows, f \in EngineForces,
          w \in EngineVirials, e \in EngineEnergies :
         LET gpos == IF wantG THEN Qty(<<g0>>, 0, 0) ELSE None
             vtens == IF wantV THEN Qty(ArrZeros(3, 3), 0, 0) ELSE None
         IN \E r \in {ForcePartPlumed_internal_compute(pl_step, pl_charges, pl_nvec,
                          gpos, vtens, [force |-> f, virial |-> w, energy |-> e])} :
            /\ pl_call' = [gpos |-> wantG, vtens |-> wantV, gpos0 |-> gpos,
                           force |-> f, virial |-> w]
            /\ pl_steps' = Append(pl_steps, r.setStep)
            /\ pl_step' = r.plumedstep
            /\ pl_cmds' = r.cmds
            /\ pl_outcome' = "return"
            /\ pl_energy' = r.energy
            /\ pl_gpos' = r.gpos
            /\ pl_vtens' = r.vtens
    /\ UNCHANGED <<pl_charges, pl_nvec>>
    /\ UNCHANGED <<parseVars, strainVars, ffVars, hookVars>>

-----------------------------------------------------------------------------
(* DataHook (utils.py 126-150), ExtXYZHook (utils.py 153-178)              *)
(* and their driver, yaff's Verlet integrator.                             *)

MaxIter == 4
MaxStart == 2
MaxStep == 2

\* super().__init__(start, step) (lines 129, 156): yaff's VerletHook.__init__
\* does not hand its arguments on, it ends with Hook.__init__(self, start=0,
\* step=1).  The result is the schedule the hook carries.
VerletHook_init(start, step) == [start |-> 0, step |-> 1]

\* yaff's Hook.expects_call for the schedule the hook carries
expects_call(hook, counter) ==
    counter >= hook.start /\ (counter - hook.start) % hook.step = 0

\* Atoms(numbers=..., positions=..., cell=..., pbc=True) (lines 134-139, 161-166)
NewAtoms(system) ==
    [numbers   |-> system.numbers,
     positions |-> PerAngstrom(system.pos),
     cell      |-> PerAngstrom(system.rvecs),
     pbc       |-> TRUE]

\* set_positions and set_cell on the object behind ref (lines 148-149, 176-177)
SetAtoms(h, ref, system) ==
    [h EXCEPT ![ref].positions = PerAngstrom(system.pos),
              ![ref].cell = PerAngstrom(system.rvecs)]

\* DataHook.__call__ (lines 147-150): [heap, data, error].  atoms = 0 is the
\* None of line 130, on which line 148 fails.
DataHook_call(h, atoms, data, system) ==
    IF atoms = 0
    THEN [heap |-> h, data |-> data, error |-> "AttributeError"]
    ELSE LET h1 == SetAtoms(h, atoms, system)                 \* lines 148-149
             h2 == Append(h1, h1[atoms])                      \* self.atoms.copy()
         IN [heap |-> h2, data |-> Append(data, Len(h2)), error |-> "none"]  \* line 150

\* ExtXYZHook.__call__ (lines 174-178): [heap, file, error]
ExtXYZHook_call_every(h, atoms, file, counter, system) ==
    IF atoms = 0
    THEN [heap |-> h, file |-> file, error |-> "AttributeError"]
    ELSE LET h1 == SetAtoms(h, atoms, system)
         IN [heap |-> h1, file |-> Append(file, h1[atoms]), error |-> "none"]

ExtXYZHook_call(h, atoms, file, counter, system) ==
    IF counter > 0                                            \* line 175
    THEN IF atoms = 0                                         \* None, line 157
         THEN [heap |-> h, file |-> file, error |-> "AttributeError"]  \* line 176
         ELSE LET h1 == SetAtoms(h, atoms, system)            \* lines 176-177
              IN [heap |-> h1, file |-> Append(file, h1[atoms]),
                  error |-> "none"]                           \* line 178
    ELSE [heap |-> h, file |-> file, error |-> "none"]

\* The states of the one-atom system the integrator passes through.
Systems ==
    { [numbers |-> <<18>>, pos |-> TimesAngstrom(Qty(<< x >>, 0, 0)),
       rvecs |-> TimesAngstrom(Qty(c, 0, 0))] :
        <<x, c>> \in { << <<0, 0, 0>>, << <<2, 0, 0>>, <<0, 2, 0>>, <<0, 0, 2>> >> >>,
                       << <<1, 2, 3>>, << <<2, 0, 0>>, <<0, 2, 0>>, <<0, 0, 2>> >> >>,
                       << <<1, 2, 3>>, << <<3, 0, 0>>, <<1, 3, 0>>, <<0, 0, 3>> >> >> } }

\* The hooks after __init__(start, step) (lines 128-131, 155-158), the
\* integrator not yet built: dh_start, dh_step, xh_start, xh_step are the
\* arguments of the constructors, atoms is None.
HooksInit ==
    /\ it_pc = "new"
    /\ it_counter = 0
    /\ it_system \in Systems
    /\ it_trace = <<it_system>>
    /\ heap = <<>>
    /\ dh_start \in 0..MaxStart
    /\ dh_step \in 1..MaxStep
    /\ dh_atoms = 0
    /\ dh_data = <<>>
    /\ xh_start \in 0..MaxStart
    /\ xh_step \in 1..MaxStep
    /\ xh_atoms = 0
    /\ xh_file = <<>>
    /\ xh_calls = <<>>

HooksIdle ==
    /\ it_pc = "idle"
    /\ it_counter = 0
    /\ it_system = [numbers |-> <<>>, pos |-> None, rvecs |-> None]
    /\ it_trace = <<>>
    /\ heap = <<>>
    /\ dh_start = 0
    /\ dh_step = 1
    /\ dh_atoms = 0
    /\ dh_data = <<>>
    /\ xh_start = 0
    /\ xh_step = 1
    /\ xh_atoms = 0
    /\ xh_file = <<>>
    /\ xh_calls = <<>>

\* The schedules the two hooks carry.
DataHookSchedule == VerletHook_init(dh_start, dh_step)
ExtXYZHookSchedule == VerletHook_init(xh_start, xh_step)

\* yaff's Iterative.call_hooks at the current iteration: each hook whose
\* schedule expects the iteration is called, the DataHook first; an exception
\* ends the run.  [heap, data, file, calls, error]
CallHooks(h, dAtoms, xAtoms, counter, system) ==
    LET d == IF expects_call(DataHookSchedule, counter)
             THEN DataHook_call(h, dAtoms, dh_data, system)
             ELSE [heap |-> h, data |-> dh_data, error |-> "none"]
        xCalled == d.error = "none" /\ expects_call(ExtXYZHookSchedule, counter)
        x == IF xCalled
             THEN ExtXYZHook_call(d.heap, xAtoms, xh_file, counter, system)
             ELSE [heap |-> d.heap, file |-> xh_file, error |-> d.error]
    IN [heap |-> x.heap, data |-> d.data, file |-> x.file,
        calls |-> IF xCalled THEN Append(xh_calls, counter) ELSE xh_calls,
        error |-> x.error]

\* The integrator is built: yaff calls init(iterative) (lines 133-139, 160-166)
\* of each hook whose schedule expects iteration 0, then calls the hooks for
\* iteration 0.
VerletInit ==
    /\ it_pc = "new"
    /\ LET dInit == expects_call(DataHookSchedule, it_counter)
           xInit == expects_call(ExtXYZHookSchedule, it_counter)
           h1 == IF dInit THEN Append(heap, NewAtoms(it_system)) ELSE heap
           h2 == IF xInit THEN Append(h1, NewAtoms(it_system)) ELSE h1
           dAtoms == IF dInit THEN Len(h1) ELSE 0
           xAtoms == IF xInit THEN Len(h2) ELSE 0
       IN \E r \in {CallHooks(h2, dAtoms, xAtoms, it_counter, it_system)} :
            /\ dh_atoms' = dAtoms
            /\ xh_atoms' = xAtoms
            /\ heap' = r.heap
            /\ dh_data' = r.data
            /\ xh_file' = r.file
            /\ xh_calls' = r.calls
            /\ it_pc' = IF r.error = "none" THEN "running" ELSE "failed"
    /\ UNCHANGED <<it_counter, it_system, it_trace, dh_start, dh_step, xh_start, xh_step>>
    /\ UNCHANGED <<parseVars, strainVars, ffVars, plVars>>

\* One integrator step: the system moves, the counter advances, the hooks are
\* called for the new iteration.
VerletStep ==
    /\ it_pc = "running"
    /\ it_counter < MaxIter
    /\ it_counter' = it_counter + 1
    /\ it_system' \in Systems
    /\ it_trace' = Append(it_trace, it_system')
    /\ \E r \in {CallHooks(heap, dh_atoms, xh_atoms, it_counter', it_system')} :
         /\ heap' = r.heap
         /\ dh_data' = r.data
         /\ xh_file' = r.file
         /\ xh_calls' = r.calls
         /\ it_pc' = IF r.error = "none" THEN "running" ELSE "failed"
    /\ UNCHANGED <<dh_start, dh_step, dh_atoms, xh_start, xh_step, xh_atoms>>
    /\ UNCHANGED <<parseVars, strainVars, ffVars, plVars>>

FFNext == FFCompute \/ FFUpdatePos

PlumedNext == PlumedCompute

HooksNext == VerletInit \/ VerletStep

-----------------------------------------------------------------------------
(* Specifications                                                          *)

InitParse == ParseInit /\ StrainIdle /\ FFIdle /\ PlumedIdle /\ HooksIdle
SpecParse == InitParse /\ [][ParseNext]_vars

InitStrain == StrainInit /\ ParseIdle /\ FFIdle /\ PlumedIdle /\ HooksIdle
SpecStrain == InitStrain /\ [][StrainNext]_vars

InitFF == FFInit /\ ParseIdle /\ StrainIdle /\ PlumedIdle /\ HooksIdle
SpecFF == InitFF /\ [][FFNext]_vars

InitPlumed == PlumedInit /\ ParseIdle /\ StrainIdle /\ FFIdle /\ HooksIdle
SpecPlumed == InitPlumed /\ [][PlumedNext]_vars

InitHooks == HooksInit /\ ParseIdle /\ StrainIdle /\ FFIdle /\ PlumedIdle
SpecHooks == InitHooks /\ [][HooksNext]_vars

-----------------------------------------------------------------------------
(* Claims                                                                  *)

(* ---- the force evaluator ---- *)

\* The physical quantities the calculators of the parts report for the
\* system's positions [A]: the total force [eV/A] on every atom, the total
\* energy [eV] and the total of volume * stress.
RECURSIVE TotalForce(_, _, _)
TotalForce(parts, n, x) ==
    IF n = 0 THEN ArrZeros(Len(x), 3)
    ELSE ArrAdd(get_forces(parts[n], x), TotalForce(parts, n - 1, x))

RECURSIVE TotalEnergy(_, _, _)
TotalEnergy(parts, n, x) ==
    IF n = 0 THEN 0 ELSE get_potential_energy(parts[n], x) + TotalEnergy(parts, n - 1, x)

RECURSIVE TotalVirial(_, _, _)
TotalVirial(parts, n, c) ==
    IF n = 0 THEN ArrZeros(3, 3)
    ELSE ArrAdd(ArrScale(IDet(c), get_stress(parts[n])), TotalVirial(parts, n - 1, c))

FFForce == TotalForce(ff_parts, Len(ff_parts), ff_pos.val)
FFEnergy == TotalEnergy(ff_parts, Len(ff_parts), ff_pos.val)
FFExceeds == \E i \in DOMAIN FFForce : VecNorm2(FFForce[i]) > ff_threshold * ff_threshold

\* C1: every evaluation fails with ForceThresholdExceededException iff the
\* largest per-atom force magnitude is strictly greater than the threshold,
\* carrying that maximum and the index of an atom attaining it; in every other
\* case it returns the sum of the parts' energies.
C1_FailsIffThresholdExceeded ==
    ff_outcome # "none" =>
        IF FFExceeds
        THEN /\ ff_outcome = "ForceThresholdExceededException"
             /\ \A i \in DOMAIN FFForce : VecNorm2(FFForce[i]) <= ff_exc.max2
             /\ VecNorm2(FFForce[ff_exc.index + 1]) = ff_exc.max2
        ELSE /\ ff_outcome = "return"
             /\ ff_energy = TimesElectronvolt(Qty(FFEnergy, 0, 0))

\* C2: with all forces below the threshold, compute completes and returns the
\* total energy for each of the four combinations of supplied buffers.
C2_AbsentBuffersTolerated ==
    (ff_outcome # "none" /\ ~FFExceeds) =>
        \A wantG, wantV \in BOOLEAN :
            ff_call = [gpos |-> wantG, vtens |-> wantV] =>
                /\ ff_outcome = "return"
                /\ ff_energy.some
                /\ ff_energy.val = FFEnergy

\* C4: accumulation across parts is additive: the gradient buffer holds the sum
\* of all parts' gradients (= -force) and the energy returned is the sum of
\* their energies; n identical parts give n times the single part's values.
C4_AccumulationAdditive ==
    ff_outcome \in {"return", "ForceThresholdExceededException"} =>
        /\ ff_gpos = PerAngstrom(TimesElectronvolt(Qty(ArrNeg(FFForce), 0, 0)))
        /\ ff_call.vtens =>
              ff_vtens = TimesElectronvolt(
                  Qty(TotalVirial(ff_parts, Len(ff_parts), PerAngstrom(ff_rvecs).val), 0, 0))
        /\ ff_outcome = "return" => ff_energy = TimesElectronvolt(Qty(FFEnergy, 0, 0))
        /\ (\A k \in DOMAIN ff_parts : ff_parts[k] = ff_parts[1]) =>
              /\ ff_gpos.val = ArrScale(-Len(ff_parts), get_forces(ff_parts[1], ff_pos.val))
              /\ ff_outcome = "return" =>
                    ff_energy.val = Len(ff_parts) * get_potential_energy(ff_parts[1], ff_pos.val)

\* Two identical parts returned twice the (non-zero) energy and gradient of one.
C4_Witness ==
    /\ ff_outcome = "return"
    /\ Len(ff_parts) = 2
    /\ ff_parts[1] = ff_parts[2]
    /\ ff_energy.val = 2 * get_potential_energy(ff_parts[1], ff_pos.val)
    /\ ff_energy.val # 0
    /\ ff_gpos.val = ArrScale(2, ArrNeg(get_forces(ff_parts[1], ff_pos.val)))
    /\ ff_gpos.val # ArrZeros(Len(ff_pos.val), 3)

(* ---- the bias part ---- *)

\* C3: every compute call increments the engine's step counter exactly once:
\* two consecutive calls never present the same step value to the engine.
C3_StepAdvancesEveryCall ==
    \A i \in 1..(Len(pl_steps) - 1) : pl_steps[i + 1] = pl_steps[i] + 1

\* C3, amended: a compute call hands the engine the part's current plumedstep,
\* once, and leaves plumedstep as it was: all calls present the same value.
C3_StepPresentedUnchanged ==
    /\ \A i \in 1..Len(pl_steps) : pl_steps[i] = pl_step
    /\ pl_outcome = "return" =>
          /\ pl_cmds[1] = "setStep"
          /\ Cardinality({i \in DOMAIN pl_cmds : pl_cmds[i] = "setStep"}) = 1

C3_Witness ==
    /\ Len(pl_steps) >= 2
    /\ pl_step > 0
    /\ pl_steps[1] = pl_steps[2]

\* C5: a gradient buffer holding G before the call holds G - F after it, F the
\* physical force the engine added to the array it was handed.
C5_GradientNegatedOnce ==
    (pl_outcome = "return" /\ pl_call.gpos) =>
        /\ pl_gpos.some
        /\ pl_gpos.val = << [k \in 1..3 |-> pl_call.gpos0.val[1][k] - pl_call.force[k]] >>

C5_Witness ==
    /\ pl_outcome = "return"
    /\ pl_call.gpos
    /\ pl_call.gpos0.val = << <<2, 1, -1>> >>
    /\ pl_call.force = <<1, -2, 3>>
    /\ pl_gpos.val = << <<1, 3, -4>> >>

(* ---- the hooks ---- *)

\* The iterations 0..K a schedule (start, step) selects.
Scheduled(start, step, lo, K) ==
    {i \in lo..K : \E k \in 0..K : i = start + k * step}

\* The frame of the system as it was at iteration i.
FrameAt(i) ==
    [numbers   |-> it_trace[i + 1].numbers,
     positions |-> PerAngstrom(it_trace[i + 1].pos),
     cell      |-> PerAngstrom(it_trace[i + 1].rvecs),
     pbc       |-> TRUE]

C7_OneFramePerScheduledIteration ==
    it_pc \in {"running", "failed"} =>
        /\ Len(dh_data) = Cardinality(Scheduled(dh_start, dh_step, 0, it_counter))
        /\ \A k \in 1..Len(dh_data) :
              /\ dh_start + (k - 1) * dh_step <= it_counter
              /\ heap[dh_data[k]] = FrameAt(dh_start + (k - 1) * dh_step)

(* ---- the strain algebra ---- *)

\* 2 * strain + I
StrainA == MatAdd(MatScale(QInt(2), st_strain), Eye)

\* A matrix is symmetric, exactly.
Symmetric(m) == m = Transpose(m)

\* A symmetric matrix has a negative eigenvalue.
HasNegativeEigenvalue(A) ==
    \E f \in Frames : \E k \in Idx :
        /\ IsEigenvector(A, f[k])
        /\ Rayleigh(A, f[k])[1] < 0

\* Sylvester's criterion: a symmetric matrix is positive-definite.
PositiveDefinite(A) ==
    /\ A[1][1][1] > 0
    /\ Det2(A[1][1], A[1][2], A[2][1], A[2][2])[1] > 0
    /\ Det(A)[1] > 0

\* C9: apply_strain never returns a box for an invalid strain: a strain that is
\* not symmetric, or with a negative eigenvalue of 2 * strain + I, fails with
\* an error, and no box with NaN entries is returned.
C9_InvalidStrainRejected ==
    (st_pc # "start"
       /\ (~Symmetric(st_strain) \/ HasNegativeEigenvalue(StrainA))) =>
        /\ st_pc = "failed"
        /\ st_error = "AssertionError"
        /\ ~MatHasNaN(st_box)

\* C10: compute_strain(apply_strain(s, box0), box0) = s for symmetric s with
\* 2 s + I positive-definite and invertible box0; for a strain that line 201
\* accepts as symmetric without its being so exactly, the result is s within
\* the tolerance of that line.
C10_RoundTrip ==
    (st_pc \in {"computed", "failed"}
       /\ IsSymmetric(st_strain)
       /\ PositiveDefinite(LowerTriangle(StrainA))
       /\ ~Singular(st_box0)) =>
        /\ st_pc = "computed"
        /\ allclose(st_result, st_strain)
        /\ Symmetric(st_strain) => st_result = st_strain

\* A round trip through a sheared box of a strain with off-diagonal entries.
C10_Witness ==
    /\ st_pc = "computed"
    /\ PositiveDefinite(StrainA)
    /\ st_strain[1][2] # QInt(0)
    /\ st_box0 # Transpose(st_box0)
    /\ st_box # st_box0
    /\ st_result = st_strain

(* ---- the console parser ---- *)

\* What the specification of the parser prescribes (spec 4.6): a candidate line
\* is valid when it contains the marker, has a second token, all tokens after
\* the first parse as numbers and the second one is an integer.
ValidStepLine(line) ==
    /\ HasVerlet(line)
    /\ Len(line) >= 2
    /\ ~FloatsFail(line)
    /\ IsInt(line[2])

RECURSIVE SpecStepCount(_, _)
SpecStepCount(text, i) ==
    IF i = 0 THEN 0
    ELSE IF ValidStepLine(text[i]) THEN IntOf(text[i][2])
    ELSE SpecStepCount(text, i - 1)

\* C8: for every console text the parser returns (tag, step_count) and never
\* fails; malformed candidate lines are skipped; step_count is the integer
\* second token of the last valid VERLET line (0 if none) and is non-negative;
\* tag is "unsafe" iff the text contains the keyword.
C8_ParserNeverFails ==
    parse_pc = "done" =>
        /\ parse_result.outcome = "return"
        /\ parse_result.counter = SpecStepCount(stdout, Len(stdout))
        /\ parse_result.counter >= 0
        /\ parse_result.tag = (IF HasUnsafe(stdout) THEN "unsafe" ELSE "safe")

=============================================================================
